---- MODULE Spec2Model ----
(***************************************************************************)
(* Currency-swap form (problem2 App component), token catalogue builder,  *)
(* wallet page (WalletPage component) and the helpers they use.            *)
(*                                                                         *)
(* Strings are sequences of one-character strings, so that parseFloat,    *)
(* Number and toFixed are conversions between texts and numbers and not   *)
(* the identity.  A number is a record [nan, neg, w, m]: NaN, or a sign,  *)
(* a whole part w and a fraction m counted in millionths.                 *)
(* The arithmetic is exact decimal arithmetic: the binary rounding of     *)
(* IEEE doubles is not modelled.                                          *)
(***************************************************************************)
EXTENDS Integers, Sequences, FiniteSets, TLC

\* ------------------------------------------------------------------ bounds
\* Largest number of settle timers the model lets be pending at once.
MaxTimers == 2

\* Largest whole part of an output amount that FlipSides is let to turn into
\* the input amount: flips and selections could otherwise grow the amount
\* without limit.
MaxWhole == 22000

\* ----------------------------------------------------------------- numbers
Micro == 1000000

NaN == [nan |-> TRUE, neg |-> FALSE, w |-> 0, m |-> 0]

Num(neg, w, m) == [nan |-> FALSE, neg |-> neg, w |-> w, m |-> m]

IsZero(x) == ~x.nan /\ x.w = 0 /\ x.m = 0

\* x > n for an integer n >= 0 (false for NaN, as in JavaScript)
GreaterThan(x, n) == ~x.nan /\ ~x.neg /\ (x.w > n \/ (x.w = n /\ x.m > 0))

\* x >= 0 (true for -0)
AtLeastZero(x) == ~x.nan /\ (~x.neg \/ IsZero(x))

\* x <= 0 (false for NaN)
AtMostZero(x) == ~x.nan /\ (x.neg \/ IsZero(x))

\* ------------------------------------------------------------------- texts
DigitChars == <<"0", "1", "2", "3", "4", "5", "6", "7", "8", "9">>

IsDigit(c) == \E i \in 1..10 : DigitChars[i] = c

DigitVal(c) == (CHOOSE i \in 1..10 : DigitChars[i] = c) - 1

IsSpace(c) == c = " "

RECURSIVE Pow10(_)
Pow10(k) == IF k = 0 THEN 1 ELSE 10 * Pow10(k - 1)

\* number of digits of s starting at position i
RECURSIVE DigitRun(_, _)
DigitRun(s, i) ==
  IF i <= Len(s) /\ IsDigit(s[i]) THEN 1 + DigitRun(s, i + 1) ELSE 0

\* the integer written by the n digits of s starting at position i
RECURSIVE IntOf(_, _, _)
IntOf(s, i, n) ==
  IF n = 0 THEN 0 ELSE IntOf(s, i, n - 1) * 10 + DigitVal(s[i + n - 1])

\* the fraction, in millionths, written by the n digits of s starting at i
\* (digits after the sixth are below the resolution of the model)
FracOf(s, i, n) ==
  LET k == IF n > 6 THEN 6 ELSE n
  IN  IntOf(s, i, k) * Pow10(6 - k)

\* first position of s at or after i that is not white space
RECURSIVE SkipSpace(_, _)
SkipSpace(s, i) ==
  IF i <= Len(s) /\ IsSpace(s[i]) THEN SkipSpace(s, i + 1) ELSE i

\* last position of s at or before i that is not white space
RECURSIVE SkipSpaceBack(_, _)
SkipSpaceBack(s, i) ==
  IF i >= 1 /\ IsSpace(s[i]) THEN SkipSpaceBack(s, i - 1) ELSE i

\* The longest decimal literal [+-] digits [. digits] | [+-] . digits
\* that starts at position i of s: whether there is one, the position after
\* it and its value.  Exponents, "Infinity" and radix prefixes are outside
\* the alphabet of the model.
DecimalLiteral(s, i) ==
  LET signed == i <= Len(s) /\ s[i] \in {"-", "+"}
      neg    == i <= Len(s) /\ s[i] = "-"
      j      == IF signed THEN i + 1 ELSE i
      ni     == DigitRun(s, j)
      dot    == j + ni <= Len(s) /\ s[j + ni] = "."
      nf     == IF dot THEN DigitRun(s, j + ni + 1) ELSE 0
      ok     == ni + nf > 0
      \* "5." is a literal, "." alone is not
      stop   == IF dot THEN j + ni + 1 + nf ELSE j + ni
  IN  [ok   |-> ok,
       stop |-> stop,
       val  |-> IF ok THEN Num(neg, IntOf(s, j, ni), FracOf(s, j + ni + 1, nf))
                ELSE NaN]

\* parseFloat: leading white space skipped, longest literal prefix, else NaN
parseFloat(s) == DecimalLiteral(s, SkipSpace(s, 1)).val

\* Number: white space trimmed, empty text is 0, the whole text must be a
\* literal, else NaN
Number(s) ==
  LET a   == SkipSpace(s, 1)
      b   == SkipSpaceBack(s, Len(s))
      lit == DecimalLiteral(s, a)
  IN  IF a > b THEN Num(FALSE, 0, 0)
      ELSE IF lit.ok /\ lit.stop = b + 1 THEN lit.val
      ELSE NaN

\* decimal digits of a natural number
RECURSIVE NatText(_)
NatText(n) ==
  IF n < 10 THEN <<DigitChars[n + 1]>>
  ELSE Append(NatText(n \div 10), DigitChars[(n % 10) + 1])

\* exactly k decimal digits of n, zero padded on the left
RECURSIVE PadText(_, _)
PadText(n, k) ==
  IF k = 0 THEN <<>>
  ELSE Append(PadText(n \div 10, k - 1), DigitChars[(n % 10) + 1])

\* Number.prototype.toFixed(6) of a non-negative number
toFixed6(x) == NatText(x.w) \o <<".">> \o PadText(x.m, 6)

\* x * pf / pt for positive integer prices, rounded to millionths (half up),
\* computed in pieces that each fit a 32-bit integer
MulDiv(x, pf, pt) ==
  LET xm    == x.m * pf
      xw    == x.w * pf + (xm \div Micro)
      rest  == (xw % pt) * Micro + (xm % Micro)
      q     == rest \div pt
      r     == rest % pt
      qr    == IF 2 * r >= pt THEN q + 1 ELSE q
      whole == (xw \div pt) + (qr \div Micro)
  IN  Num(FALSE, whole, qr % Micro)

\* ----------------------------------------------------- tokens and catalogue
Lower == <<"a", "b", "c", "d", "e", "f", "g", "h", "i", "j", "k", "l", "m",
           "n", "o", "p", "q", "r", "s", "t", "u", "v", "w", "x", "y", "z">>

Upper == <<"A", "B", "C", "D", "E", "F", "G", "H", "I", "J", "K", "L", "M",
           "N", "O", "P", "Q", "R", "S", "T", "U", "V", "W", "X", "Y", "Z">>

IsUpper(c) == \E i \in 1..26 : Upper[i] = c

\* String.prototype.toLowerCase, one character
LowerChar(c) ==
  IF IsUpper(c) THEN Lower[CHOOSE i \in 1..26 : Upper[i] = c] ELSE c

toLowerCase(s) == [i \in 1..Len(s) |-> LowerChar(s[i])]

\* String.prototype.includes
includes(s, sub) ==
  \E i \in 0..(Len(s) - Len(sub)) :
    \A j \in 1..Len(sub) : s[i + j] = sub[j]

\* A state slot holding a Token or null: <<>> is null, <<t>> is the token t
Null == <<>>

Some(t) == <<t>>

IconBase == <<"t", "o", "k", "e", "n", "s", "/">>

IconUrl(currency) == IconBase \o currency \o <<".", "s", "v", "g">>

Token(currency, price) ==
  [currency |-> currency, price |-> price, icon |-> IconUrl(currency)]

\* A record of the price feed; hasPrice = FALSE is a record without a price
Raw(currency, price) == [currency |-> currency, hasPrice |-> TRUE, price |-> price]

RawNoPrice(currency) == [currency |-> currency, hasPrice |-> FALSE, price |-> 0]

\* Map.prototype.set that leaves an existing key with its first value
MapSet_firstWins(map, tok) ==
  IF \E i \in 1..Len(map) : map[i].currency = tok.currency
  THEN map
  ELSE Append(map, tok)

\* Map.prototype.set on a map kept as the sequence of its values in
\* insertion order: an existing key keeps its place and takes the new value
MapSet(map, tok) ==
  IF \E i \in 1..Len(map) : map[i].currency = tok.currency
  THEN [i \in 1..Len(map) |->
          IF map[i].currency = tok.currency THEN tok ELSE map[i]]
  ELSE Append(map, tok)

\* the forEach of processTokenData with every priced record kept
RECURSIVE TokenMap_noFilter(_, _)
TokenMap_noFilter(data, n) ==
  IF n = 0 THEN <<>>
  ELSE LET item == data[n]
           map  == TokenMap_noFilter(data, n - 1)
       IN  IF item.hasPrice
           THEN MapSet(map, Token(item.currency, item.price))
           ELSE map

\* the forEach of processTokenData over the first n records
RECURSIVE TokenMap(_, _)
TokenMap(data, n) ==
  IF n = 0 THEN <<>>
  ELSE LET item == data[n]
           map  == TokenMap(data, n - 1)
       IN  IF item.hasPrice /\ item.price # 0 /\ item.price > 0
           THEN MapSet(map, Token(item.currency, item.price))
           ELSE map

\* rank of a character in the collation: digits, then letters without
\* regard to case
Primary(c) ==
  IF IsDigit(c) THEN DigitVal(c)
  ELSE IF \E i \in 1..26 : Lower[i] = LowerChar(c)
       THEN 10 + (CHOOSE i \in 1..26 : Lower[i] = LowerChar(c))
       ELSE 0

\* comparison of two texts by the rank of their characters: -1, 0 or 1
RECURSIVE ComparePrimary(_, _, _)
ComparePrimary(a, b, i) ==
  IF i > Len(a) /\ i > Len(b) THEN 0
  ELSE IF i > Len(a) THEN -1
  ELSE IF i > Len(b) THEN 1
  ELSE IF Primary(a[i]) < Primary(b[i]) THEN -1
  ELSE IF Primary(a[i]) > Primary(b[i]) THEN 1
  ELSE ComparePrimary(a, b, i + 1)

\* lower case sorts before upper case when the letters are equal
CaseRank(c) == IF IsUpper(c) THEN 1 ELSE 0

\* comparison of two texts of equal letters by the case of their characters
RECURSIVE CompareCase(_, _, _)
CompareCase(a, b, i) ==
  IF i > Len(a) \/ i > Len(b) THEN 0
  ELSE IF CaseRank(a[i]) < CaseRank(b[i]) THEN -1
  ELSE IF CaseRank(a[i]) > CaseRank(b[i]) THEN 1
  ELSE CompareCase(a, b, i + 1)

\* String.prototype.localeCompare on digits and letters: letters first,
\* case only to break a tie
localeCompare(a, b) ==
  LET p == ComparePrimary(a, b, 1)
  IN  IF p # 0 THEN p ELSE CompareCase(a, b, 1)

\* insert tok in a sequence sorted by currency, after the equal ones
RECURSIVE InsertSorted(_, _)
InsertSorted(sorted, tok) ==
  IF sorted = <<>> THEN <<tok>>
  ELSE IF localeCompare(tok.currency, sorted[Len(sorted)].currency) >= 0
       THEN Append(sorted, tok)
       ELSE Append(InsertSorted(SubSeq(sorted, 1, Len(sorted) - 1), tok),
                   sorted[Len(sorted)])

\* the values of the map left in insertion order
SortByCurrency_insertionOrder(arr, n) == SubSeq(arr, 1, n)

\* Array.prototype.sort (stable) with the localeCompare comparator
RECURSIVE SortByCurrency(_, _)
SortByCurrency(arr, n) ==
  IF n = 0 THEN <<>> ELSE InsertSorted(SortByCurrency(arr, n - 1), arr[n])

processTokenData(data) ==
  LET map == TokenMap(data, Len(data))
  IN  SortByCurrency(map, Len(map))

\* Array.prototype.find by currency, "|| null"
FindToken(list, currency) ==
  IF \E i \in 1..Len(list) : list[i].currency = currency
  THEN Some(list[CHOOSE i \in 1..Len(list) :
                   /\ list[i].currency = currency
                   /\ \A j \in 1..(i - 1) : list[j].currency # currency])
  ELSE Null

\* ------------------------------------------------------------ wallet page
Osmosis == <<"O", "s", "m", "o", "s", "i", "s">>

Ethereum == <<"E", "t", "h", "e", "r", "e", "u", "m">>

Arbitrum == <<"A", "r", "b", "i", "t", "r", "u", "m">>

Zilliqa == <<"Z", "i", "l", "l", "i", "q", "a">>

Neo == <<"N", "e", "o">>

WalletBalance(currency, amount, blockchain) ==
  [currency |-> currency, amount |-> amount, blockchain |-> blockchain]

getPriority(blockchain) ==
  CASE blockchain = Osmosis  -> 100
    [] blockchain = Ethereum -> 50
    [] blockchain = Arbitrum -> 30
    [] blockchain = Zilliqa  -> 20
    [] blockchain = Neo      -> 20
    [] OTHER                 -> -99

\* the filter of sortedBalances without the test of the amount
FilterBalances_anyAmount(balances) ==
  SelectSeq(balances, LAMBDA balance : getPriority(balance.blockchain) > -99)

\* Array.prototype.filter of sortedBalances
FilterBalances(balances) ==
  SelectSeq(balances,
            LAMBDA balance :
              LET balancePriority == getPriority(balance.blockchain)
              IN  balancePriority > -99 /\ GreaterThan(balance.amount, 0))

\* the comparator of sortedBalances with its operands exchanged
ComparePriority_ascending(lhs, rhs) ==
  getPriority(lhs.blockchain) - getPriority(rhs.blockchain)

\* the comparator of sortedBalances
ComparePriority(lhs, rhs) ==
  LET leftPriority  == getPriority(lhs.blockchain)
      rightPriority == getPriority(rhs.blockchain)
  IN  rightPriority - leftPriority

\* insert balance in a sequence sorted by the comparator, after the equal ones
RECURSIVE InsertByPriority(_, _)
InsertByPriority(sorted, balance) ==
  IF sorted = <<>> THEN <<balance>>
  ELSE IF ComparePriority(sorted[Len(sorted)], balance) <= 0
       THEN Append(sorted, balance)
       ELSE Append(InsertByPriority(SubSeq(sorted, 1, Len(sorted) - 1), balance),
                   sorted[Len(sorted)])

\* Array.prototype.sort (stable) with the comparator of sortedBalances
RECURSIVE SortByPriority(_, _)
SortByPriority(arr, n) ==
  IF n = 0 THEN <<>> ELSE InsertByPriority(SortByPriority(arr, n - 1), arr[n])

\* the callback of useMemo
SortedBalances(balances) ==
  LET kept == FilterBalances(balances)
  IN  SortByPriority(kept, Len(kept))

\* prices[currency] || 0
PriceOf(prices, currency) ==
  IF currency \in DOMAIN prices THEN prices[currency] ELSE 0

\* price * amount for an integer price >= 0
Times(price, amount) ==
  IF price = 0 THEN Num(FALSE, 0, 0) ELSE MulDiv(amount, price, 1)

\* the props of one WalletRow and its key
WalletRow(balance, prices) ==
  [key             |-> balance.currency \o <<"-">> \o balance.blockchain,
   amount          |-> balance.amount,
   usdValue        |-> Times(PriceOf(prices, balance.currency), balance.amount),
   formattedAmount |-> toFixed6(balance.amount)]

\* sortedBalances.map
Rows(sortedBalances, prices) ==
  [i \in 1..Len(sortedBalances) |-> WalletRow(sortedBalances[i], prices)]

\* the WalletPage before its first render
NotRendered ==
  [rendered |-> FALSE, balances |-> <<>>, prices |-> <<>>,
   sortedBalances |-> <<>>, rows |-> <<>>]

\* --------------------------------------------------------------- sum to n
\* the three functions before their call: pc is the statement to run next,
\* i and sum the locals of the loop, arg and stack the argument and the
\* pending frames of the recursion, ret its last return value
NotCalled ==
  [pc |-> "start", n |-> 0, i |-> 0, sum |-> 0, arg |-> 0, stack |-> <<>>,
   ret |-> 0, a |-> 0, b |-> 0, c |-> 0]

\* ------------------------------------------------------- inputs of the model
\* Largest n the three sums are called with; the least is -MaxN
MaxN == 12

\* Integers given to sum_to_n_a, sum_to_n_b and sum_to_n_c
SumInputs == (0 - MaxN)..MaxN

ETH == <<"E", "T", "H">>

USDC == <<"U", "S", "D", "C">>

BUSD == <<"B", "U", "S", "D">>

\* Price feeds the fetch may resolve with: duplicates and records without a
\* positive price; a feed without the default "from" token; an empty feed
Feeds ==
  { <<Raw(USDC, 1), Raw(ETH, 1000), Raw(BUSD, 1), Raw(ETH, 2000),
      Raw(BUSD, 0), RawNoPrice(USDC)>>,
    <<Raw(BUSD, 1), Raw(USDC, 1), Raw(ETH, -5)>>,
    <<>> }

\* Longest record list of the catalogue inputs
MaxRecords == 3

BTC == <<"B", "T", "C">>

XRP == <<"X", "R", "P">>

ADA == <<"A", "D", "A">>

SOL == <<"S", "O", "L">>

\* Records of a price feed: one currency with several prices, with prices
\* that are zero, negative or missing, and in another case of letters
CatalogRecords ==
  { Raw(BTC, 100), Raw(ETH, 50), Raw(ETH, 60), Raw(ETH, 0), Raw(ETH, -5),
    RawNoPrice(ETH), Raw(<<"e", "t", "h">>, 7),
    Raw(XRP, 0), Raw(ADA, -5), Raw(SOL, 10) }

\* Record lists of at most MaxRecords records
CatalogFeeds ==
  UNION { [1..n -> CatalogRecords] : n \in 0..MaxRecords }

\* Longest list of balances of the wallet inputs
MaxBalances == 3

OSMO == <<"O", "S", "M", "O">>

FOO == <<"F", "O", "O">>

ZIL == <<"Z", "I", "L">>

NEO == <<"N", "E", "O">>

ARB == <<"A", "R", "B">>

Unknown == <<"U", "n", "k", "n", "o", "w", "n">>

\* Balances of a wallet: every supported blockchain, two of equal priority,
\* an unsupported one, amounts that are zero, negative and fractional
WalletBalances ==
  { WalletBalance(ETH, Num(FALSE, 2, 0), Ethereum),
    WalletBalance(FOO, Num(FALSE, 1, 0), Unknown),
    WalletBalance(OSMO, Num(FALSE, 0, 0), Osmosis),
    WalletBalance(OSMO, Num(FALSE, 1, 500000), Osmosis),
    WalletBalance(ZIL, Num(FALSE, 3, 0), Zilliqa),
    WalletBalance(NEO, Num(FALSE, 1, 0), Neo),
    WalletBalance(ARB, Num(TRUE, 1, 0), Arbitrum),
    WalletBalance(ARB, Num(FALSE, 4, 0), Arbitrum) }

\* Lists of at most MaxBalances balances
BalanceLists ==
  UNION { [1..n -> WalletBalances] : n \in 0..MaxBalances }

\* Price tables: the default {}, and one that lacks some currencies
PriceTables ==
  { <<>>, (ETH :> 2000) @@ (OSMO :> 3) @@ (ZIL :> 0) }

\* Values an <input type="number"> hands to onChange: the empty string or
\* a valid floating-point number
AmountTexts ==
  { <<>>, <<"0">>, <<"1">>, <<"1", "0">>, <<"1", "1">>,
    <<"1", ".", "5", "0">>, <<"-", "1">>, <<"-", "0">>, <<"-", "0", ".", "5">>,
    <<"1", "0", ".", "0", "0", "0", "0", "0", "1">> }

\* Texts typed in the search box of a selector
SearchTerms == { <<>>, <<"e">> }

\* -------------------------------------------------------------------- state
VARIABLES
  tokens,           \* Token[]
  fromToken,        \* Token | null
  toToken,          \* Token | null
  fromAmount,       \* string
  toAmount,         \* string
  isFromModalOpen,
  isToModalOpen,
  searchTerm,
  error,            \* the error message: its kind and the currency it names
  isLoading,
  isSwapping,
  timers,           \* settle callbacks scheduled by setTimeout and not yet run
  swapStart,        \* <<fromToken, toToken>> when the swap in flight was started
  lastEvent,        \* the handler that ran last, its argument, the branch taken
  wallet,           \* the WalletPage as rendered last: its props, memo and rows
  sums              \* the calls of sum_to_n_a, _b, _c on one n: locals and results

vars == <<tokens, fromToken, toToken, fromAmount, toAmount, isFromModalOpen,
          isToModalOpen, searchTerm, error, isLoading, isSwapping, timers,
          swapStart, lastEvent, wallet, sums>>

MOCK_BALANCE == 10

\* '' : no error
NoError == [kind |-> "none", currency |-> <<>>]

\* "Failed to load token prices. Please refresh the page to try again."
FetchFailed == [kind |-> "FetchFailed", currency |-> <<>>]

\* `Insufficient ${currency} balance`
InsufficientBalance(currency) ==
  [kind |-> "InsufficientBalance", currency |-> currency]

Event(op, arg, branch) == [op |-> op, arg |-> arg, branch |-> branch]

\* Recompute with the exchange rate upside down
Recompute_inverseRate(fa, ft, tt) ==
  LET fromAmountNum == parseFloat(fa)
  IN  [error    |-> IF GreaterThan(fromAmountNum, MOCK_BALANCE) /\ ft # Null
                    THEN InsufficientBalance(ft[1].currency)
                    ELSE NoError,
       toAmount |-> IF /\ GreaterThan(fromAmountNum, 0)
                       /\ ft # Null /\ tt # Null
                       /\ ft[1].price # 0 /\ tt[1].price # 0
                    THEN toFixed6(MulDiv(fromAmountNum, tt[1].price, ft[1].price))
                    ELSE <<>>]

\* Recompute with the balance comparison written >= instead of >
Recompute_inclusiveBalance(fa, ft, tt) ==
  LET fromAmountNum == parseFloat(fa)
  IN  [error    |-> IF /\ \/ GreaterThan(fromAmountNum, MOCK_BALANCE)
                          \/ fromAmountNum = Num(FALSE, MOCK_BALANCE, 0)
                       /\ ft # Null
                    THEN InsufficientBalance(ft[1].currency)
                    ELSE NoError,
       toAmount |-> IF /\ GreaterThan(fromAmountNum, 0)
                       /\ ft # Null /\ tt # Null
                       /\ ft[1].price # 0 /\ tt[1].price # 0
                    THEN toFixed6(MulDiv(fromAmountNum, ft[1].price, tt[1].price))
                    ELSE <<>>]

\* The body of the effect on [fromAmount, fromToken, toToken]: the error and
\* the output amount it leaves
Recompute(fa, ft, tt) ==
  LET fromAmountNum == parseFloat(fa)
  IN  [error    |-> IF GreaterThan(fromAmountNum, MOCK_BALANCE) /\ ft # Null
                    THEN InsufficientBalance(ft[1].currency)
                    ELSE NoError,
       toAmount |-> IF /\ GreaterThan(fromAmountNum, 0)
                       /\ ft # Null /\ tt # Null
                       /\ ft[1].price # 0 /\ tt[1].price # 0
                    THEN toFixed6(MulDiv(fromAmountNum, ft[1].price, tt[1].price))
                    ELSE <<>>]

\* The effect with setToAmount appending to the previous output amount
Effect_appendsQuote(s) ==
  LET r == Recompute(s.fromAmount, s.fromToken, s.toToken)
  IN  [s EXCEPT !.error = r.error, !.toAmount = s.toAmount \o r.toAmount]

\* One run of the effect on the form's state s: setError and setToAmount are
\* its only writes
Effect(s) ==
  LET r == Recompute(s.fromAmount, s.fromToken, s.toToken)
  IN  [s EXCEPT !.error = r.error, !.toAmount = r.toAmount]

\* The render that follows a handler which left fa, ft, tt, ta, err in the
\* state: the effect runs when one of its dependencies changed
Render(fa, ft, tt, ta, err) ==
  LET changed == <<fa, ft, tt>> # <<fromAmount, fromToken, toToken>>
      s       == [fromAmount |-> fa, fromToken |-> ft, toToken |-> tt,
                  toAmount |-> ta, error |-> err]
      r       == IF changed THEN Effect(s) ELSE s
  IN  /\ fromAmount' = r.fromAmount
      /\ fromToken' = r.fromToken
      /\ toToken' = r.toToken
      /\ toAmount' = r.toAmount
      /\ error' = r.error

\* isButtonDisabled without the error
isButtonDisabled_ignoresError ==
  \/ fromAmount = <<>>
  \/ AtMostZero(parseFloat(fromAmount))
  \/ isSwapping

\* isButtonDisabled with < 0 for <= 0
isButtonDisabled_zeroEnabled ==
  \/ fromAmount = <<>>
  \/ (AtMostZero(parseFloat(fromAmount)) /\ ~IsZero(parseFloat(fromAmount)))
  \/ error # NoError
  \/ isSwapping

\* isButtonDisabled without the swap in flight
isButtonDisabled_ignoresSwapping ==
  \/ fromAmount = <<>>
  \/ AtMostZero(parseFloat(fromAmount))
  \/ error # NoError

isButtonDisabled ==
  \/ fromAmount = <<>>
  \/ AtMostZero(parseFloat(fromAmount))
  \/ error # NoError
  \/ isSwapping

\* State after the first render and its effects; the fetch is in flight
Init ==
  /\ tokens = <<>>
  /\ fromToken = Null
  /\ toToken = Null
  /\ fromAmount = <<>>
  /\ toAmount = <<>>
  /\ isFromModalOpen = FALSE
  /\ isToModalOpen = FALSE
  /\ searchTerm = <<>>
  /\ error = NoError
  /\ isLoading = TRUE
  /\ isSwapping = FALSE
  /\ timers = 0
  /\ swapStart = <<>>
  /\ lastEvent = Event("mount", <<>>, "")
  /\ wallet = NotRendered
  /\ sums = NotCalled

\* ------------------------------------------------------------------ fetch
FetchResolved(data) ==
  /\ isLoading
  /\ LET processedTokens == processTokenData(data)
     IN  /\ tokens' = processedTokens
         /\ Render(fromAmount, FindToken(processedTokens, ETH),
                   FindToken(processedTokens, USDC), toAmount, error)
  /\ isLoading' = FALSE
  /\ lastEvent' = Event("fetchPrices", data, "resolved")
  /\ UNCHANGED <<isFromModalOpen, isToModalOpen, searchTerm, isSwapping, timers,
                 swapStart, wallet, sums>>

\* the catch of fetchPrices without the finally
FetchRejected_keepsLoading ==
  /\ isLoading
  /\ error' = FetchFailed
  /\ lastEvent' = Event("fetchPrices", <<>>, "failed")
  /\ UNCHANGED <<tokens, fromToken, toToken, fromAmount, toAmount,
                 isFromModalOpen, isToModalOpen, searchTerm, isLoading,
                 isSwapping, timers, swapStart, wallet, sums>>

FetchRejected ==
  /\ isLoading
  /\ error' = FetchFailed
  /\ isLoading' = FALSE
  /\ lastEvent' = Event("fetchPrices", <<>>, "failed")
  /\ UNCHANGED <<tokens, fromToken, toToken, fromAmount, toAmount,
                 isFromModalOpen, isToModalOpen, searchTerm, isSwapping, timers,
                 swapStart, wallet, sums>>

\* --------------------------------------------------------------- handlers
\* the acceptance test without ">= 0"
Accepts_anyNumber(value) ==
  value = <<>> \/ ~Number(value).nan

Accepts(value) ==
  value = <<>> \/ (AtLeastZero(Number(value)) /\ ~Number(value).nan)

handleFromAmountChange(value) ==
  /\ IF Accepts(value)
     THEN /\ Render(value, fromToken, toToken, toAmount, error)
          /\ lastEvent' = Event("handleFromAmountChange", value, "accepted")
     ELSE /\ UNCHANGED <<fromAmount, fromToken, toToken, toAmount, error>>
          /\ lastEvent' = Event("handleFromAmountChange", value, "rejected")
  /\ UNCHANGED <<tokens, isFromModalOpen, isToModalOpen, searchTerm,
                 isLoading, isSwapping, timers,
                 swapStart, wallet, sums>>

handleSelectFromToken(token) ==
  LET same == toToken # Null /\ toToken[1].currency = token.currency
  IN  /\ Render(fromAmount, Some(token),
                IF same THEN fromToken ELSE toToken, toAmount, error)
      /\ isFromModalOpen' = FALSE
      /\ searchTerm' = <<>>
      /\ lastEvent' = Event("handleSelectFromToken", token.currency,
                            IF same THEN "swapped" ELSE "set")
      /\ UNCHANGED <<tokens, isToModalOpen, isLoading, isSwapping, timers,
                 swapStart, wallet, sums>>

\* handleSelectToToken without the exchange of the two sides
handleSelectToToken_noSwap(token) ==
  LET same == fromToken # Null /\ fromToken[1].currency = token.currency
  IN  /\ Render(fromAmount, fromToken, Some(token), toAmount, error)
      /\ isToModalOpen' = FALSE
      /\ searchTerm' = <<>>
      /\ lastEvent' = Event("handleSelectToToken", token.currency,
                            IF same THEN "swapped" ELSE "set")
      /\ UNCHANGED <<tokens, isFromModalOpen, isLoading, isSwapping, timers,
                     swapStart, wallet, sums>>

handleSelectToToken(token) ==
  LET same == fromToken # Null /\ fromToken[1].currency = token.currency
  IN  /\ Render(fromAmount, IF same THEN toToken ELSE fromToken,
                Some(token), toAmount, error)
      /\ isToModalOpen' = FALSE
      /\ searchTerm' = <<>>
      /\ lastEvent' = Event("handleSelectToToken", token.currency,
                            IF same THEN "swapped" ELSE "set")
      /\ UNCHANGED <<tokens, isFromModalOpen, isLoading, isSwapping, timers,
                 swapStart, wallet, sums>>

\* handleSwapTokens setting both sides to the "to" token
handleSwapTokens_sameToken ==
  /\ IF isSwapping
     THEN /\ UNCHANGED <<fromAmount, fromToken, toToken, toAmount, error>>
          /\ lastEvent' = Event("handleSwapTokens", <<>>, "ignored")
     ELSE /\ Render(toAmount, toToken, toToken, toAmount, error)
          /\ lastEvent' = Event("handleSwapTokens", <<>>, "flipped")
  /\ UNCHANGED <<tokens, isFromModalOpen, isToModalOpen, searchTerm,
                 isLoading, isSwapping, timers, swapStart, wallet, sums>>

\* handleSwapTokens leaving the input amount as it was
handleSwapTokens_keepsAmount ==
  /\ IF isSwapping
     THEN /\ UNCHANGED <<fromAmount, fromToken, toToken, toAmount, error>>
          /\ lastEvent' = Event("handleSwapTokens", <<>>, "ignored")
     ELSE /\ Render(fromAmount, toToken, fromToken, toAmount, error)
          /\ lastEvent' = Event("handleSwapTokens", <<>>, "flipped")
  /\ UNCHANGED <<tokens, isFromModalOpen, isToModalOpen, searchTerm,
                 isLoading, isSwapping, timers, swapStart, wallet, sums>>

\* handleSwapTokens without the early return while swapping
handleSwapTokens_unguarded ==
  /\ Render(toAmount, toToken, fromToken, toAmount, error)
  /\ lastEvent' = Event("handleSwapTokens", <<>>,
                        IF isSwapping THEN "ignored" ELSE "flipped")
  /\ UNCHANGED <<tokens, isFromModalOpen, isToModalOpen, searchTerm,
                 isLoading, isSwapping, timers, swapStart, wallet, sums>>

handleSwapTokens ==
  /\ IF isSwapping
     THEN /\ UNCHANGED <<fromAmount, fromToken, toToken, toAmount, error>>
          /\ lastEvent' = Event("handleSwapTokens", <<>>, "ignored")
     ELSE /\ Render(toAmount, toToken, fromToken, toAmount, error)
          /\ lastEvent' = Event("handleSwapTokens", <<>>, "flipped")
  /\ UNCHANGED <<tokens, isFromModalOpen, isToModalOpen, searchTerm,
                 isLoading, isSwapping, timers,
                 swapStart, wallet, sums>>

handleSwapClick ==
  /\ timers < MaxTimers
  /\ isSwapping' = TRUE
  /\ timers' = timers + 1
  /\ swapStart' = <<fromToken, toToken>>
  /\ lastEvent' = Event("handleSwapClick", <<>>, "started")
  /\ UNCHANGED <<tokens, fromToken, toToken, fromAmount, toAmount,
                 isFromModalOpen, isToModalOpen, searchTerm, error, isLoading,
                 wallet, sums>>

\* the callback handleSwapClick passed to setTimeout
SettleTimer ==
  /\ timers > 0
  /\ timers' = timers - 1
  /\ swapStart' = <<>>
  /\ Render(<<>>, fromToken, toToken, <<>>, error)
  /\ isSwapping' = FALSE
  /\ lastEvent' = Event("setTimeout", <<>>, "settled")
  /\ UNCHANGED <<tokens, isFromModalOpen, isToModalOpen, searchTerm, isLoading,
                 wallet, sums>>

\* ------------------------------------------------------ events of the form
\* The form is rendered once loading is over.

\* onChange of the "You pay" input, disabled while swapping
ChangeFromAmount(value) ==
  /\ ~isLoading
  /\ ~isSwapping
  /\ handleFromAmountChange(value)

\* tokens a selector lists: those of the other side left out, then the
\* search filter of TokenSelector
Listed(other) ==
  { tokens[i] : i \in
      { k \in 1..Len(tokens) :
          /\ other = Null \/ tokens[k].currency # other[1].currency
          /\ includes(toLowerCase(tokens[k].currency), toLowerCase(searchTerm)) } }

\* click on a token of the "from" selector
SelectFromToken(token) ==
  /\ ~isLoading
  /\ isFromModalOpen
  /\ token \in Listed(toToken)
  /\ handleSelectFromToken(token)

\* click on a token of the "to" selector
SelectToToken(token) ==
  /\ ~isLoading
  /\ isToModalOpen
  /\ token \in Listed(fromToken)
  /\ handleSelectToToken(token)

\* click on the arrow between the two inputs
FlipSides ==
  /\ ~isLoading
  /\ toAmount = <<>> \/ parseFloat(toAmount).w <= MaxWhole
  /\ handleSwapTokens

\* click on the swap button; a disabled button dispatches no click.  The
\* overlay of an open selector keeps the pointer off the button, not the
\* keyboard focus, so the event is not tied to the selectors being closed.
TriggerSwap ==
  /\ ~isLoading
  /\ IF isButtonDisabled
     THEN /\ lastEvent' = Event("handleSwapClick", <<>>, "disabled")
          /\ UNCHANGED <<tokens, fromToken, toToken, fromAmount, toAmount,
                         isFromModalOpen, isToModalOpen, searchTerm, error,
                         isLoading, isSwapping, timers,
                 swapStart, wallet, sums>>
     ELSE handleSwapClick

\* click on the token button of an input, disabled while swapping
OpenFromModal ==
  /\ ~isLoading
  /\ ~isSwapping
  /\ isFromModalOpen' = TRUE
  /\ lastEvent' = Event("onSelectTokenClick", <<>>, "from")
  /\ UNCHANGED <<tokens, fromToken, toToken, fromAmount, toAmount,
                 isToModalOpen, searchTerm, error, isLoading, isSwapping, timers,
                 swapStart, wallet, sums>>

OpenToModal ==
  /\ ~isLoading
  /\ ~isSwapping
  /\ isToModalOpen' = TRUE
  /\ lastEvent' = Event("onSelectTokenClick", <<>>, "to")
  /\ UNCHANGED <<tokens, fromToken, toToken, fromAmount, toAmount,
                 isFromModalOpen, searchTerm, error, isLoading, isSwapping, timers,
                 swapStart, wallet, sums>>

\* click on the close button of an open selector
CloseFromModal ==
  /\ isFromModalOpen
  /\ isFromModalOpen' = FALSE
  /\ lastEvent' = Event("onClose", <<>>, "from")
  /\ UNCHANGED <<tokens, fromToken, toToken, fromAmount, toAmount,
                 isToModalOpen, searchTerm, error, isLoading, isSwapping, timers,
                 swapStart, wallet, sums>>

CloseToModal ==
  /\ isToModalOpen
  /\ isToModalOpen' = FALSE
  /\ lastEvent' = Event("onClose", <<>>, "to")
  /\ UNCHANGED <<tokens, fromToken, toToken, fromAmount, toAmount,
                 isFromModalOpen, searchTerm, error, isLoading, isSwapping, timers,
                 swapStart, wallet, sums>>

\* typing in the search box of an open selector
SetSearchTerm(term) ==
  /\ isFromModalOpen \/ isToModalOpen
  /\ searchTerm' = term
  /\ lastEvent' = Event("setSearchTerm", term, "")
  /\ UNCHANGED <<tokens, fromToken, toToken, fromAmount, toAmount,
                 isFromModalOpen, isToModalOpen, error, isLoading, isSwapping,
                 timers,
                 swapStart, wallet, sums>>

\* ------------------------------------------------------------ wallet page
\* One render of WalletPage with the props balances and prices: useMemo
\* keeps sortedBalances while balances is the same, the rows are mapped
\* anew.  After the first render the model changes the prices only.
WalletPage(balances, prices) ==
  /\ wallet.rendered => (balances = wallet.balances /\ prices # wallet.prices)
  /\ LET sortedBalances == IF wallet.rendered /\ balances = wallet.balances
                           THEN wallet.sortedBalances
                           ELSE SortedBalances(balances)
     IN  wallet' = [rendered       |-> TRUE,
                    balances       |-> balances,
                    prices         |-> prices,
                    sortedBalances |-> sortedBalances,
                    rows           |-> Rows(sortedBalances, prices)]
  /\ lastEvent' = Event("WalletPage", <<>>, "rendered")
  /\ UNCHANGED <<tokens, fromToken, toToken, fromAmount, toAmount,
                 isFromModalOpen, isToModalOpen, searchTerm, error, isLoading,
                 isSwapping, timers, swapStart, sums>>

\* --------------------------------------------------------------- sum to n
\* everything but sums
form ==
  <<tokens, fromToken, toToken, fromAmount, toAmount, isFromModalOpen,
    isToModalOpen, searchTerm, error, isLoading, isSwapping, timers,
    swapStart, wallet>>

\* the three functions are called with n, one after the other
CallSums(n) ==
  /\ sums.pc = "start"
  /\ sums' = [sums EXCEPT !.pc = "a", !.n = n, !.arg = n]
  /\ lastEvent' = Event("sum_to_n", <<>>, "called")
  /\ UNCHANGED form

\* sum_to_n_a up to its loop: the edge case returns 0
sum_to_n_a ==
  /\ sums.pc = "a"
  /\ sums' = IF sums.n < 1
             THEN [sums EXCEPT !.a = 0, !.pc = "b"]
             ELSE [sums EXCEPT !.sum = 0, !.i = 1, !.pc = "a_loop"]
  /\ lastEvent' = Event("sum_to_n_a", <<>>, "entered")
  /\ UNCHANGED form

\* the loop of sum_to_n_a with i < n for i <= n
sum_to_n_a_loop_exclusive ==
  /\ sums.pc = "a_loop"
  /\ sums' = IF sums.i < sums.n
             THEN [sums EXCEPT !.sum = sums.sum + sums.i, !.i = sums.i + 1]
             ELSE [sums EXCEPT !.a = sums.sum, !.pc = "b"]
  /\ lastEvent' = Event("sum_to_n_a", <<>>, "loop")
  /\ UNCHANGED form

\* one test of the loop of sum_to_n_a: an iteration, or the return of sum
sum_to_n_a_loop ==
  /\ sums.pc = "a_loop"
  /\ sums' = IF sums.i <= sums.n
             THEN [sums EXCEPT !.sum = sums.sum + sums.i, !.i = sums.i + 1]
             ELSE [sums EXCEPT !.a = sums.sum, !.pc = "b"]
  /\ lastEvent' = Event("sum_to_n_a", <<>>, "loop")
  /\ UNCHANGED form

sum_to_n_b ==
  /\ sums.pc = "b"
  /\ sums' = [sums EXCEPT
               !.b = IF sums.n < 1 THEN 0 ELSE (sums.n * (sums.n + 1)) \div 2,
               !.pc = "c"]
  /\ lastEvent' = Event("sum_to_n_b", <<>>, "returned")
  /\ UNCHANGED form

\* a call of sum_to_n_c with the argument arg: it returns 0 or 1, or calls
\* itself with arg - 1 and leaves "n +" pending on the stack
sum_to_n_c ==
  /\ sums.pc = "c"
  /\ sums' = IF sums.arg < 1
             THEN [sums EXCEPT !.ret = 0, !.pc = "c_return"]
             ELSE IF sums.arg = 1
             THEN [sums EXCEPT !.ret = 1, !.pc = "c_return"]
             ELSE [sums EXCEPT !.stack = Append(sums.stack, sums.arg),
                               !.arg = sums.arg - 1]
  /\ lastEvent' = Event("sum_to_n_c", <<>>, "called")
  /\ UNCHANGED form

\* a return of sum_to_n_c: to the pending "n +" of its caller, or to the
\* outermost caller
sum_to_n_c_return ==
  /\ sums.pc = "c_return"
  /\ sums' = IF sums.stack = <<>>
             THEN [sums EXCEPT !.c = sums.ret, !.pc = "done"]
             ELSE [sums EXCEPT
                     !.ret = sums.stack[Len(sums.stack)] + sums.ret,
                     !.stack = SubSeq(sums.stack, 1, Len(sums.stack) - 1)]
  /\ lastEvent' = Event("sum_to_n_c", <<>>, "returned")
  /\ UNCHANGED form

Next ==
  \/ \E data \in Feeds : FetchResolved(data)
  \/ FetchRejected
  \/ \E value \in AmountTexts : ChangeFromAmount(value)
  \/ \E i \in 1..Len(tokens) : SelectFromToken(tokens[i])
  \/ \E i \in 1..Len(tokens) : SelectToToken(tokens[i])
  \/ FlipSides
  \/ TriggerSwap
  \/ SettleTimer
  \/ OpenFromModal
  \/ OpenToModal
  \/ CloseFromModal
  \/ CloseToModal
  \/ \E term \in SearchTerms : SetSearchTerm(term)

Spec == Init /\ [][Next]_vars

\* The state machine with its two selection events taken for any token of
\* the catalogue, as the onSelectToken callbacks accept them, and not only
\* for the tokens the selectors list.
OnSelectFromToken(token) ==
  /\ ~isLoading
  /\ handleSelectFromToken(token)

OnSelectToToken(token) ==
  /\ ~isLoading
  /\ handleSelectToToken(token)

NextHandlers ==
  \/ Next
  \/ \E i \in 1..Len(tokens) : OnSelectFromToken(tokens[i])
  \/ \E i \in 1..Len(tokens) : OnSelectToToken(tokens[i])

SpecHandlers == Init /\ [][NextHandlers]_vars

\* The settle timer, once scheduled, fires
SpecLive == Spec /\ WF_vars(SettleTimer)

\* The promise of the fetch settles: it resolves with a feed or rejects
FetchSettles == (\E data \in Feeds : FetchResolved(data)) \/ FetchRejected

SpecStartup == Spec /\ WF_vars(FetchSettles)

\* The catalogue built from any record list
NextCatalog == \E data \in CatalogFeeds : FetchResolved(data)

SpecCatalog == Init /\ [][NextCatalog]_vars

\* the statements of the three sums once called
RunSums ==
  \/ sum_to_n_a
  \/ sum_to_n_a_loop
  \/ sum_to_n_b
  \/ sum_to_n_c
  \/ sum_to_n_c_return

NextSums == (\E n \in SumInputs : CallSums(n)) \/ RunSums

\* The three sums called with any n; a call that has started runs on
SpecSums == Init /\ [][NextSums]_vars /\ WF_vars(RunSums)

\* The wallet page rendered with any balances and prices
NextWallet ==
  \E balances \in BalanceLists, prices \in PriceTables :
    WalletPage(balances, prices)

SpecWallet == Init /\ [][NextWallet]_vars

\* ============================================================== properties
ProgramState ==
  <<tokens, fromToken, toToken, fromAmount, toAmount, isFromModalOpen,
    isToModalOpen, searchTerm, error, isLoading, isSwapping, timers>>

BothSelected == fromToken # Null /\ toToken # Null

\* C1: fromToken and toToken are never both selected with the same currency.
NoDuplicateSelection ==
  ~(BothSelected /\ fromToken[1].currency = toToken[1].currency)

\* a selection or a flip has acted and left two tokens selected
NoDuplicateSelectionWitness ==
  /\ BothSelected
  /\ lastEvent.op = "handleSwapTokens"
  /\ lastEvent.branch = "flipped"
  /\ fromToken[1].currency = USDC

\* C2: selecting as toToken the currency held by fromToken leaves toToken the
\* selected token and fromToken the previous toToken; selecting as fromToken
\* the currency held by toToken leaves fromToken the selected token and
\* toToken the previous fromToken.
SameTokenReselectionSwaps ==
  [][\A i \in 1..Len(tokens) :
       /\ ( /\ lastEvent'.op = "handleSelectToToken"
            /\ lastEvent'.arg = tokens[i].currency
            /\ fromToken # Null
            /\ fromToken[1].currency = tokens[i].currency )
          => (toToken' = Some(tokens[i]) /\ fromToken' = toToken)
       /\ ( /\ lastEvent'.op = "handleSelectFromToken"
            /\ lastEvent'.arg = tokens[i].currency
            /\ toToken # Null
            /\ toToken[1].currency = tokens[i].currency )
          => (fromToken' = Some(tokens[i]) /\ toToken' = fromToken)]_vars

\* the "to" side was given the currency of the "from" side and both sides
\* hold a token afterwards
SameTokenReselectionWitness ==
  /\ lastEvent.op = "handleSelectToToken"
  /\ lastEvent.branch = "swapped"
  /\ BothSelected
  /\ toToken[1].currency = lastEvent.arg

\* The text is digits, a point and six digits
IsSixDecimals(s) ==
  LET n == DigitRun(s, 1)
  IN  /\ n >= 1
      /\ Len(s) = n + 7
      /\ s[n + 1] = "."
      /\ DigitRun(s, n + 2) = 6

\* v is a * pf / pt to the nearest millionth: |v * pt - a * pf| <= pt / 2,
\* whole parts and millionths kept apart so that each fits a 32-bit integer
NearestMillionth(v, a, pf, pt) ==
  LET dw  == v.w * pt - a.w * pf
      dm  == v.m * pt - a.m * pf
      top == dw + (dm \div Micro)
      low == dm % Micro
  IN  \/ top = 0 /\ 2 * low <= pt
      \/ top = -1 /\ 2 * (Micro - low) <= pt

Positive(x) == ~x.nan /\ ~x.neg /\ (x.w > 0 \/ x.m > 0)

\* the inputs for which a quote is due
QuoteDueFor(fa, ft, tt) ==
  /\ Positive(parseFloat(fa))
  /\ ft # Null
  /\ tt # Null
  /\ ft[1].price > 0
  /\ tt[1].price > 0

QuoteDue == QuoteDueFor(fromAmount, fromToken, toToken)

\* ta is the output amount that belongs to the inputs fa, ft, tt
QuoteOf(fa, ft, tt, ta) ==
  /\ (ta # <<>>) <=> QuoteDueFor(fa, ft, tt)
  /\ QuoteDueFor(fa, ft, tt) =>
       /\ IsSixDecimals(ta)
       /\ NearestMillionth(parseFloat(ta), parseFloat(fa),
                           ft[1].price, tt[1].price)
  /\ ( /\ fa = <<"1">>
       /\ ft # Null
       /\ tt # Null
       /\ ft[1].price = 2000
       /\ tt[1].price = 1 )
     => ta = <<"2", "0", "0", "0", ".", "0", "0", "0", "0", "0", "0">>

\* C3: toAmount is non-empty exactly when the parsed fromAmount is positive
\* and both tokens are selected with positive prices; it is then
\* fromAmount * fromToken.price / toToken.price written with six decimals
\* (prices 2000 and 1 with fromAmount "1" give "2000.000000").
QuoteMatchesInputs == QuoteOf(fromAmount, fromToken, toToken, toAmount)

\* a quote that is not a whole number: 11 at price 1 into a token at 2000,
\* turned round and quoted again
QuoteMatchesInputsWitness ==
  /\ QuoteDue
  /\ fromAmount = <<"0", ".", "0", "0", "5", "5", "0", "0">>
  /\ toAmount = <<"0", ".", "0", "0", "0", "0", "0", "3">>

\* the parsed input amount is above the balance of 10
AboveBalanceFor(fa) ==
  LET a == parseFloat(fa)
  IN  ~a.nan /\ ~a.neg /\ (a.w > 10 \/ (a.w = 10 /\ a.m > 0))

AboveBalance == AboveBalanceFor(fromAmount)

\* err was last written by the recomputation and not by the failed fetch
RecomputedFor(err) == err # FetchFailed

\* err is the error that belongs to the inputs fa, ft
ErrorOf(fa, ft, err) ==
  RecomputedFor(err) =>
    err = IF AboveBalanceFor(fa) /\ ft # Null
          THEN InsufficientBalance(ft[1].currency)
          ELSE NoError

\* C4 as stated: after Recompute, errorKind is InsufficientBalance when the
\* parsed fromAmount exceeds the balance of 10, and is none otherwise.
ErrorIffAboveBalance ==
  RecomputedFor(error) =>
    ((error.kind = "InsufficientBalance") <=> AboveBalance)

\* C4, amended: after Recompute, errorKind is InsufficientBalance (naming the
\* currency of fromToken) when the parsed fromAmount exceeds the balance of
\* 10 and a fromToken is selected, and is none otherwise: 10 gives no error,
\* 11 and 10.000001 give InsufficientBalance.
ErrorIffAboveBalanceOfToken == ErrorOf(fromAmount, fromToken, error)

\* one unit above the balance, with a token to pay from
ErrorIffAboveBalanceWitness ==
  /\ fromAmount = <<"1", "1">>
  /\ fromToken # Null
  /\ error.kind = "InsufficientBalance"
  /\ lastEvent.op = "handleFromAmountChange"

\* a text that writes a number below zero
WritesNegative(value) ==
  /\ value # <<>>
  /\ value[1] = "-"
  /\ \E i \in 2..Len(value) : IsDigit(value[i]) /\ value[i] # "0"

\* C5: ChangeFromAmount with a text that is neither empty nor a non-negative
\* number leaves fromAmount, toAmount, errorKind, the tokens and the swapping
\* flag unchanged; an accepted text becomes fromAmount verbatim.
InvalidAmountRejected ==
  [][\A value \in AmountTexts :
       ( /\ lastEvent'.op = "handleFromAmountChange"
         /\ lastEvent'.arg = value )
       => IF WritesNegative(value)
          THEN UNCHANGED <<fromAmount, toAmount, error, fromToken, toToken,
                           isSwapping>>
          ELSE fromAmount' = value]_vars

\* a negative text was entered over a non-empty amount, which is still there
InvalidAmountRejectedWitness ==
  /\ lastEvent.op = "handleFromAmountChange"
  /\ WritesNegative(lastEvent.arg)
  /\ fromAmount = <<"1", ".", "5", "0">>

\* C6: TriggerSwap enters Swapping only from a state where fromAmount parses
\* to a positive number, errorKind is none and no swap is in flight; in every
\* other state it changes nothing.
TriggerSwapGuarded ==
  [][lastEvent'.op = "handleSwapClick"
       => IF /\ Positive(parseFloat(fromAmount))
             /\ error.kind = "none"
             /\ ~isSwapping
          THEN isSwapping'
          ELSE UNCHANGED ProgramState]_vars

\* the swap button was pressed while an error was shown, and no swap started
TriggerSwapGuardedWitness ==
  /\ lastEvent.op = "handleSwapClick"
  /\ lastEvent.branch = "disabled"
  /\ error.kind = "InsufficientBalance"
  /\ ~isSwapping

\* C7: the swap button is disabled if and only if fromAmount is empty or not
\* positive, or errorKind is not none, or a swap is in flight.
ButtonDisabledProjection ==
  isButtonDisabled <=>
    \/ fromAmount = <<>>
    \/ ~Positive(parseFloat(fromAmount))
    \/ error.kind # "none"
    \/ isSwapping

\* the form is shown and the button is disabled for the error alone
ButtonDisabledProjectionWitness ==
  /\ ~isLoading
  /\ isButtonDisabled
  /\ Positive(parseFloat(fromAmount))
  /\ ~isSwapping

\* C8: at most one settle timer is pending, one exactly while a swap is in
\* flight; a TriggerSwap during a swap schedules nothing and an accepted one
\* schedules exactly one timer.
SingleSettleTimer ==
  /\ [](timers = IF isSwapping THEN 1 ELSE 0)
  /\ [][lastEvent'.op = "handleSwapClick"
          => timers' = IF isSwapping THEN timers ELSE
                       IF isSwapping' THEN timers + 1 ELSE timers]_vars

\* the swap button was pressed a second time during a swap
SingleSettleTimerWitness ==
  /\ lastEvent.op = "handleSwapClick"
  /\ lastEvent.branch = "disabled"
  /\ isSwapping
  /\ timers = 1

\* the state a settled swap leaves
Settled ==
  /\ ~isSwapping
  /\ fromAmount = <<>>
  /\ toAmount = <<>>
  /\ error.kind = "none"

\* C9: every accepted TriggerSwap is eventually followed by a state with
\* swapping false, both amounts empty and errorKind none, with fromToken and
\* toToken as they were when the swap was accepted.
SwapSettlesWithSameTokens ==
  /\ isSwapping ~> Settled
  /\ [][lastEvent'.op = "setTimeout"
          => /\ Settled'
             /\ fromToken' = swapStart[1]
             /\ toToken' = swapStart[2]]_vars

\* C9 without the tokens: a swap in flight is eventually settled, and the
\* settle leaves swapping false, both amounts empty and errorKind none.
SwapSettles ==
  /\ isSwapping ~> Settled
  /\ [][lastEvent'.op = "setTimeout" => Settled']_vars

\* a swap has settled
SwapSettlesWitness ==
  /\ lastEvent.op = "setTimeout"
  /\ Settled
  /\ BothSelected

\* C10: FlipSides outside a swap sets fromToken to the previous toToken,
\* toToken to the previous fromToken and fromAmount to the previous toAmount;
\* toAmount and errorKind are then those of the new inputs (errorKind keeps a
\* fetch failure only when the flip changed none of the inputs).
FlipSidesExchanges ==
  [][(lastEvent'.op = "handleSwapTokens" /\ ~isSwapping)
       => /\ fromToken' = toToken
          /\ toToken' = fromToken
          /\ fromAmount' = toAmount
          /\ QuoteOf(fromAmount', fromToken', toToken', toAmount')
          /\ ErrorOf(fromAmount', fromToken', error')
          /\ error' = FetchFailed
               => UNCHANGED <<fromAmount, fromToken, toToken, error>>]_vars

\* 1 ETH quoted as 2000 USDC was flipped: 2000 USDC to pay, above the balance
FlipSidesExchangesWitness ==
  /\ lastEvent.op = "handleSwapTokens"
  /\ lastEvent.branch = "flipped"
  /\ fromAmount = <<"2", "0", "0", "0", ".", "0", "0", "0", "0", "0", "0">>
  /\ toAmount = <<"1", ".", "0", "0", "0", "0", "0", "0">>
  /\ BothSelected
  /\ error = InsufficientBalance(USDC)

\* C11: FlipSides during a swap changes none of fromToken, toToken,
\* fromAmount, toAmount, errorKind and the swapping flag.
FlipSidesIgnoredWhileSwapping ==
  [][(lastEvent'.op = "handleSwapTokens" /\ isSwapping)
       => UNCHANGED <<fromToken, toToken, fromAmount, toAmount, error,
                      isSwapping>>]_vars

\* the arrow was pressed during a swap whose two sides and quote are set
FlipSidesIgnoredWitness ==
  /\ lastEvent.op = "handleSwapTokens"
  /\ isSwapping
  /\ BothSelected
  /\ toAmount # <<>>

\* the form's state as one record
SwapState ==
  [tokens |-> tokens, fromToken |-> fromToken, toToken |-> toToken,
   fromAmount |-> fromAmount, toAmount |-> toAmount,
   isFromModalOpen |-> isFromModalOpen, isToModalOpen |-> isToModalOpen,
   searchTerm |-> searchTerm, error |-> error, isLoading |-> isLoading,
   isSwapping |-> isSwapping]

\* C12: Recompute is idempotent: a second run with the same fromAmount,
\* fromToken and toToken leaves the whole state, toAmount and errorKind
\* included, as the first run left it.
RecomputeIdempotent == Effect(Effect(SwapState)) = Effect(SwapState)

\* the effect has left both a quote and an error that a second run meets
RecomputeIdempotentWitness ==
  /\ toAmount # <<>>
  /\ error.kind = "InsufficientBalance"
  /\ Effect(SwapState) = SwapState

\* C13: once the price fetch has failed, the failure message stays the
\* current error and the swap button stays disabled through every later
\* step.
FetchFailureBlocks ==
  [][error = FetchFailed => (error' = FetchFailed /\ isButtonDisabled')]_vars

\* the fetch has just resolved with the records lastEvent.arg
Fetched == lastEvent.op = "fetchPrices" /\ lastEvent.branch = "resolved"

\* positions of the records of data for currency c
Matching(data, c) == {i \in 1..Len(data) : data[i].currency = c}

\* positions of the records of data for currency c with a price > 0
Priced(data, c) ==
  {i \in Matching(data, c) : data[i].hasPrice /\ data[i].price > 0}

SamePrice(a, b) ==
  /\ a.hasPrice = b.hasPrice
  /\ a.hasPrice => a.price = b.price

\* two records of the positions S differ in price
TwoPrices(data, S) == \E i, j \in S : ~SamePrice(data[i], data[j])

Last(S) == CHOOSE i \in S : \A j \in S : j <= i

\* positions of the tokens of the catalogue list for currency c
TokensOf(list, c) == {i \in 1..Len(list) : list[i].currency = c}

\* list holds exactly one token for currency c, with the price of record r
OneTokenPriced(list, c, r) ==
  /\ Cardinality(TokensOf(list, c)) = 1
  /\ r.hasPrice
  /\ \A i \in TokensOf(list, c) : list[i].price = r.price

Currencies(data) == {data[i].currency : i \in 1..Len(data)}

\* C14 as stated: for a record list with two entries of the same currency
\* and different prices, the catalogue holds exactly one Token for that
\* currency, with the price of the last matching record.
LastRecordWins ==
  Fetched =>
    \A c \in Currencies(lastEvent.arg) :
      TwoPrices(lastEvent.arg, Matching(lastEvent.arg, c)) =>
        OneTokenPriced(tokens, c,
                       lastEvent.arg[Last(Matching(lastEvent.arg, c))])

\* C14, amended: for a record list with two entries of the same currency
\* whose prices are positive and different, the catalogue holds exactly one
\* Token for that currency, with the price of the last matching record
\* whose price is positive.
LastPricedRecordWins ==
  Fetched =>
    \A c \in Currencies(lastEvent.arg) :
      TwoPrices(lastEvent.arg, Priced(lastEvent.arg, c)) =>
        OneTokenPriced(tokens, c,
                       lastEvent.arg[Last(Priced(lastEvent.arg, c))])

\* ETH at 60, then at 50, then at 0: the catalogue holds ETH at 50
LastPricedRecordWinsWitness ==
  /\ Fetched
  /\ lastEvent.arg = <<Raw(ETH, 60), Raw(ETH, 50), Raw(ETH, 0)>>
  /\ tokens = <<Token(ETH, 50)>>

CurrencyList(list) == [i \in 1..Len(list) |-> list[i].currency]

\* the record lists that hold the records of data in another order
Reorderings(data) ==
  LET n == Len(data)
  IN  { [i \in 1..n |-> data[p[i]]] :
          p \in {q \in [1..n -> 1..n] : \A i, j \in 1..n : q[i] = q[j] => i = j} }

\* C15: the currencies of the catalogue are strictly ascending, and are the
\* same list for every order of the input records.
CatalogStrictlyAscending ==
  Fetched =>
    /\ \A i \in 1..(Len(tokens) - 1) :
         localeCompare(tokens[i].currency, tokens[i + 1].currency) < 0
    /\ \A other \in Reorderings(lastEvent.arg) :
         CurrencyList(processTokenData(other)) = CurrencyList(tokens)

\* three currencies given in descending order, one of them a second time in
\* lower case
CatalogStrictlyAscendingWitness ==
  /\ Fetched
  /\ lastEvent.arg = <<Raw(SOL, 10), Raw(ETH, 60), Raw(<<"e", "t", "h">>, 7)>>
  /\ CurrencyList(tokens) = <<<<"e", "t", "h">>, ETH, SOL>>

\* C16: the catalogue holds no token whose price is missing, zero or
\* negative; a currency is in the catalogue exactly when one of its records
\* has a price > 0; XRP at 0, ADA at -5 and SOL at 10 give SOL at 10 alone.
OnlyPositivePrices ==
  Fetched =>
    /\ \A i \in 1..Len(tokens) : tokens[i].price > 0
    /\ \A c \in Currencies(lastEvent.arg) \cup Currencies(tokens) :
         (TokensOf(tokens, c) # {}) <=> (Priced(lastEvent.arg, c) # {})
    /\ lastEvent.arg = <<Raw(XRP, 0), Raw(ADA, -5), Raw(SOL, 10)>>
         => tokens = <<Token(SOL, 10)>>

\* the feed of XRP at 0, ADA at -5 and SOL at 10 has been processed
OnlyPositivePricesWitness ==
  /\ Fetched
  /\ lastEvent.arg = <<Raw(XRP, 0), Raw(ADA, -5), Raw(SOL, 10)>>
  /\ Len(tokens) = 1

\* number of positions of the sequence list that hold x
Count(list, x) == Cardinality({i \in 1..Len(list) : list[i] = x})

\* the blockchain of balance has a priority and its amount is > 0
Selectable(balance) ==
  /\ balance.blockchain \in {Osmosis, Ethereum, Arbitrum, Zilliqa, Neo}
  /\ ~balance.amount.neg
  /\ ~IsZero(balance.amount)

\* C17: the selected balances are exactly the input balances whose
\* blockchain priority is not -99 and whose amount is > 0, each as many
\* times as in the input; of ETH 2 on Ethereum, FOO 1 on Unknown and OSMO 0
\* on Osmosis only ETH is selected.
SelectionIsFilteredInput ==
  wallet.rendered =>
    /\ \A b \in WalletBalances :
         Count(wallet.sortedBalances, b) =
           IF Selectable(b) THEN Count(wallet.balances, b) ELSE 0
    /\ \A i \in 1..Len(wallet.sortedBalances) :
         wallet.sortedBalances[i] \in WalletBalances
    /\ wallet.balances = <<WalletBalance(ETH, Num(FALSE, 2, 0), Ethereum),
                           WalletBalance(FOO, Num(FALSE, 1, 0), Unknown),
                           WalletBalance(OSMO, Num(FALSE, 0, 0), Osmosis)>>
         => wallet.sortedBalances =
              <<WalletBalance(ETH, Num(FALSE, 2, 0), Ethereum)>>

\* the wallet of ETH on Ethereum, FOO on Unknown and OSMO 0 on Osmosis
SelectionIsFilteredInputWitness ==
  /\ wallet.rendered
  /\ wallet.balances = <<WalletBalance(ETH, Num(FALSE, 2, 0), Ethereum),
                         WalletBalance(FOO, Num(FALSE, 1, 0), Unknown),
                         WalletBalance(OSMO, Num(FALSE, 0, 0), Osmosis)>>
  /\ Len(wallet.sortedBalances) = 1

\* C18: adjacent selected balances have priorities that do not increase, and
\* the rows (USD value, amount with 6 decimals) are those of the selected
\* balances in the same order.
SelectionByPriorityDescending ==
  wallet.rendered =>
    /\ \A i \in 1..(Len(wallet.sortedBalances) - 1) :
         getPriority(wallet.sortedBalances[i].blockchain)
           >= getPriority(wallet.sortedBalances[i + 1].blockchain)
    /\ Len(wallet.rows) = Len(wallet.sortedBalances)
    /\ \A i \in 1..Len(wallet.rows) :
         LET row     == wallet.rows[i]
             balance == wallet.sortedBalances[i]
         IN  /\ row.amount = balance.amount
             /\ row.key = balance.currency \o <<"-">> \o balance.blockchain
             /\ IsSixDecimals(row.formattedAmount)
             /\ parseFloat(row.formattedAmount) = balance.amount

\* balances given in ascending priority, rendered with a price table
SelectionByPriorityDescendingWitness ==
  /\ wallet.rendered
  /\ wallet.balances = <<WalletBalance(ZIL, Num(FALSE, 3, 0), Zilliqa),
                         WalletBalance(ETH, Num(FALSE, 2, 0), Ethereum),
                         WalletBalance(OSMO, Num(FALSE, 1, 500000), Osmosis)>>
  /\ wallet.prices # <<>>
  /\ wallet.rows[1].formattedAmount = <<"1", ".", "5", "0", "0", "0", "0", "0">>
  /\ wallet.rows[2].usdValue = Num(FALSE, 4000, 0)

\* C19: the startup fetch resolves or fails once, and loading ends in both
\* cases; the catalogue is built from the fetched records on success and
\* stays empty on failure, and it does not change once loading has ended.
FetchOneShot ==
  /\ <>(~isLoading)
  /\ [][/\ isLoading => tokens = <<>>
        /\ lastEvent'.op = "fetchPrices" => (isLoading /\ ~isLoading')
        /\ (lastEvent'.op = "fetchPrices" /\ lastEvent'.branch = "resolved")
             => tokens' = processTokenData(lastEvent'.arg)
        /\ (lastEvent'.op = "fetchPrices" /\ lastEvent'.branch = "failed")
             => tokens' = <<>>
        /\ ~isLoading => (~isLoading' /\ tokens' = tokens)]_vars

\* a catalogue of three tokens, still there after a later event of the form
FetchOneShotWitness ==
  /\ ~isLoading
  /\ Len(tokens) = 3
  /\ lastEvent.op = "handleSwapTokens"

\* the step is a selection made in the "from" or in the "to" selector
Selects ==
  lastEvent'.op \in {"handleSelectFromToken", "handleSelectToToken"}

\* C20: after SelectFromToken(t) or SelectToToken(t) no token selector is
\* open, the search text is empty, and toAmount and errorKind are those of
\* the new token pair.
SelectionClosesSelectors ==
  [][Selects =>
       /\ ~isFromModalOpen'
       /\ ~isToModalOpen'
       /\ searchTerm' = <<>>
       /\ QuoteOf(fromAmount', fromToken', toToken', toAmount')
       /\ ErrorOf(fromAmount', fromToken', error')]_vars

\* what holds of a selection: the selector it was made in is closed, the
\* search text is empty, toAmount and errorKind are those of the new pair
SelectionClosesItsSelector ==
  [][Selects =>
       /\ lastEvent'.op = "handleSelectFromToken" => ~isFromModalOpen'
       /\ lastEvent'.op = "handleSelectToToken" => ~isToModalOpen'
       /\ searchTerm' = <<>>
       /\ QuoteOf(fromAmount', fromToken', toToken', toAmount')
       /\ ErrorOf(fromAmount', fromToken', error')]_vars

\* 1 + 2 + ... + n
RECURSIVE SumUpTo(_)
SumUpTo(n) == IF n < 1 THEN 0 ELSE SumUpTo(n - 1) + n

\* C21: sum_to_n_a, sum_to_n_b and sum_to_n_c return the same value for
\* every integer n of -MaxN..MaxN, 1 + 2 + ... + n for n >= 1 and 0 for
\* n < 1, and the loop and the recursion terminate.
SumsAgree ==
  /\ [](sums.pc = "done" =>
          /\ sums.a = sums.b
          /\ sums.b = sums.c
          /\ sums.a = SumUpTo(sums.n)
          /\ sums.n < 1 => sums.a = 0)
  /\ (sums.pc # "start") ~> (sums.pc = "done")

\* the three sums have returned 78 for n = 12
SumsAgreeWitness ==
  /\ sums.pc = "done"
  /\ sums.n = 12
  /\ sums.c = 78

\* C22: while a swap is in flight, fromToken, toToken and fromAmount keep
\* the values they had when the swap was accepted: no step but the firing
\* of the settle timer changes them.
InputsFrozenWhileSwapping ==
  [][(isSwapping /\ lastEvent'.op # "setTimeout")
       => UNCHANGED <<fromToken, toToken, fromAmount>>]_vars

\* what holds while a swap is in flight: fromAmount is kept, and the tokens
\* are changed by no step but a selection in a selector left open
AmountFrozenWhileSwapping ==
  [][(isSwapping /\ lastEvent'.op # "setTimeout")
       => /\ UNCHANGED fromAmount
          /\ ~Selects => UNCHANGED <<fromToken, toToken>>]_vars

\* C23: swapping is entered only from a state with a quote: both fromToken
\* and toToken are selected and toAmount is not empty; no swap starts after
\* a failed fetch, when no token is selected.
SwapStartsFromQuote ==
  [][(~isSwapping /\ isSwapping')
       => (BothSelected /\ toAmount # <<>>)]_vars

====
